---- MODULE Spec2Model ----
(***************************************************************************)
(* A model of the smallworld simulation core.                              *)
(*                                                                         *)
(*  - src/src/assets.rs: load_levels, the level loader.  SpecLoad runs it  *)
(*    over every bounded grid of tile tokens.                              *)
(*  - src/src/game_state/mod.rs: GameState::new (the world spawned from a  *)
(*    Level) and GameState::update (one tick).  Spec runs ticks under      *)
(*    every input direction and elapsed time.                              *)
(*                                                                         *)
(* Units.  Tile coordinates are small non-negative integers held in f32,   *)
(* which is exact for them.  In the loader a position is <<x, y>> in whole *)
(* tiles and the midpoint is kept doubled (mid2 = 2 * midpoint), so that   *)
(* width * 0.5 and height * 0.5 - 0.5 stay integers.  In the world a       *)
(* position is in half tiles (HalfTile(x, y)), and dt is a number of       *)
(* eighths of a second.                                                    *)
(*                                                                         *)
(* Left out: GameState's time and camera_pos, the rendering fields and the *)
(* Sprite components other than the gate's, which no system of the tick    *)
(* reads.  The systems update calls (systems::buttons, ::motion, ::victory)*)
(* are not among the sources; each is modelled from its description in the *)
(* design text, and its place in the tick from update itself.              *)
(***************************************************************************)
EXTENDS Integers, Sequences, FiniteSets, TLC

VARIABLES
    \* ---- load_levels (assets.rs) ----
    ld,         \* where load_levels is: "loop", "body", "built", "panicked", "returned"
    tiles,      \* leveldata.tiles of the iteration in progress: a sequence of rows,
                \* each the sequence of tokens row.split(' ') yields
    built,      \* the locals of the iteration once the scan and the checks are done
    nlevels,    \* levels.len()
    \* ---- Game and GameState (game_state/mod.rs) ----
    game,       \* Game: current_level (0-based), complete, current_state
    lvl,        \* the level the world was spawned from (entities that never move,
                \* goals, walls, buttons and gates, keep the Position it gave them)
    player,     \* the Player entity: Position and Motion's destination
    hazard,     \* the Hazard entity: Position, destination, PlayerTracker's waypoint
    pushables,  \* the push blocks: Position and destination of each
    buttons,    \* Button(pressed) of each button
    gates,      \* of each gate: ButtonGate(open), Collision, and the sprite shown
    pc,         \* 0 outside update, else the place in UpdateOrder of the next system
    input,      \* this tick's game.input.dir() and dt
    ran,        \* the systems this tick has run so far, in order
    ret,        \* what the last update returned (TRUE before the first)
    verdict,    \* the locals victory and gameover of the last update
    occ0        \* per button: was an idle Pushable or the Player on it as the tick began

ldvars == <<ld, tiles, built, nlevels>>

gvars ==
    <<game, lvl, player, hazard, pushables, buttons, gates, pc, input, ran, ret, verdict, occ0>>

vars == <<ldvars, gvars>>

(***************************************************************************)
(* The level loader, assets.rs                                             *)
(***************************************************************************)

\* The largest number of tokens in one level's grid.
MaxCells == 4

\* The arms of the match, assets.rs:64-68.
CodeTokens == {"P", "S", "D", "=", "."}

\* Tokens of the spec's level format (pushable block, button, gate) that the
\* match has no arm for; every other string takes the same `other` arm.
ExtraTokens == {"B", "O", "G"}

Tokens == CodeTokens \cup ExtraTokens

\* levelset.levels: the names declared, in order.
LevelNames == <<"first", "second">>

None == <<>>

RowsOfLen(n) == [1..n -> Tokens]

\* The rows of a grid given as its tokens in reading order and the set of places
\* where a new row starts after the token.
RECURSIVE SplitRows(_, _, _)
SplitRows(flat, breaks, from) ==
    IF from > Len(flat) THEN <<>>
    ELSE LET ends == {i \in from..Len(flat) : i \in breaks \/ i = Len(flat)}
             to == CHOOSE i \in ends : \A j \in ends : i <= j
         IN  <<SubSeq(flat, from, to)>> \o SplitRows(flat, breaks, to + 1)

Max(a, b) == IF a >= b THEN a ELSE b

\* A slip the scan could make: counting tokens instead of taking the index.
WidthStepCount(width, x) == Max(width, x + 1)

\* width = max(width, x), x the 0-based index of the token in its row.
WidthStep(width, x) == Max(width, x)

\* A slip the scan could make: no flip of the row index.
TileYNoFlip(height, inv_y) == inv_y

\* let y = height - inv_y - 1
TileY(height, inv_y) == height - inv_y - 1

\* A slip: the assertion dropped.
DoorsCheckDropped(doors) == TRUE

\* assert!(doors.len() > 0)
DoorsCheck(doors) == Len(doors) > 0

\* The locals before the scan, assets.rs:49-53.
ScanInit ==
    [player_pos |-> None, stalker_pos |-> None, doors |-> <<>>, blocks |-> <<>>,
     width |-> 0, panicked |-> FALSE]

\* match code { ... } on one token.
MatchCode(acc, code, tilepos) ==
    CASE code = "P" -> [acc EXCEPT !.player_pos = <<tilepos>>]
      [] code = "S" -> [acc EXCEPT !.stalker_pos = <<tilepos>>]
      [] code = "D" -> [acc EXCEPT !.doors = Append(@, tilepos)]
      [] code = "=" -> [acc EXCEPT !.blocks = Append(@, tilepos)]
      [] code = "." -> acc
      [] OTHER -> [acc EXCEPT !.panicked = TRUE]

\* for (x, code) in row.split(' ').enumerate(); a panic ends the scan.
RECURSIVE ScanRow(_, _, _, _)
ScanRow(acc, row, x, y) ==
    IF acc.panicked \/ x >= Len(row) THEN acc
    ELSE ScanRow(MatchCode([acc EXCEPT !.width = WidthStep(@, x)], row[x + 1], <<x, y>>),
                 row, x + 1, y)

\* for (inv_y, row) in leveldata.tiles.iter().enumerate()
RECURSIVE ScanRows(_, _, _)
ScanRows(acc, grid, inv_y) ==
    IF acc.panicked \/ inv_y >= Len(grid) THEN acc
    ELSE ScanRows(ScanRow(acc, grid[inv_y + 1], 0, TileY(Len(grid), inv_y)),
                  grid, inv_y + 1)

\* One iteration of the loop over levelset.levels: the scan, then the midpoint,
\* the assertion and the two expect()s, in the order the code evaluates them.
\* Some(p) is <<p>> and None is <<>>.
BuildLevel(name, grid) ==
    LET height == Len(grid)
        acc == ScanRows(ScanInit, grid, 0)
    IN  IF acc.panicked THEN [panic |-> "unparsable character", name |-> name]
        ELSE IF ~DoorsCheck(acc.doors) THEN [panic |-> "assertion failed", name |-> name]
        ELSE IF acc.player_pos = None
        THEN [panic |-> "No player position in level", name |-> name]
        ELSE IF acc.stalker_pos = None
        THEN [panic |-> "No stalker position in level", name |-> name]
        ELSE [panic |-> "",
              name |-> name,
              width |-> acc.width,
              height |-> height,
              level |-> [name |-> name,
                         mid2 |-> <<acc.width, height - 1>>,
                         player_pos |-> acc.player_pos[1],
                         stalker_pos |-> acc.stalker_pos[1],
                         doors |-> acc.doors,
                         blocks |-> acc.blocks]]

LoadInit ==
    /\ ld = "loop"
    /\ tiles = <<>>
    /\ built = None
    /\ nlevels = 0

\* The loop takes the next leveldata of the level set: any grid of at most
\* MaxCells tokens, rectangular or ragged.  A row holds at least one token, as
\* split(' ') yields at least one.
ReadLevel ==
    /\ ld = "loop"
    /\ nlevels < Len(LevelNames)
    /\ \E n \in 0..MaxCells : \E flat \in RowsOfLen(n) : \E breaks \in SUBSET (1..(n - 1)) :
           tiles' = SplitRows(flat, breaks, 1)
    /\ ld' = "body"
    /\ UNCHANGED <<built, nlevels>>
    /\ UNCHANGED gvars

\* The body up to the Level literal.  A panic unwinds load_levels: the vector
\* of levels built so far is dropped and nothing is returned.
ParseLevel ==
    /\ ld = "body"
    /\ LET b == BuildLevel(LevelNames[nlevels + 1], tiles)
       IN  IF b.panic # ""
           THEN /\ ld' = "panicked"
                /\ built' = <<b>>
                /\ nlevels' = 0
           ELSE /\ ld' = "built"
                /\ built' = <<b>>
                /\ UNCHANGED nlevels
    /\ UNCHANGED tiles
    /\ UNCHANGED gvars

\* levels.push(Level { ... })
PushLevel ==
    /\ ld = "built"
    /\ nlevels' = nlevels + 1
    /\ ld' = "loop"
    /\ tiles' = <<>>
    /\ built' = None
    /\ UNCHANGED gvars

\* The loop is over: load_levels returns levels.
ReturnLevels ==
    /\ ld = "loop"
    /\ ld' = "returned"
    /\ UNCHANGED <<tiles, built, nlevels>>
    /\ UNCHANGED gvars

(***************************************************************************)
(* The world, game_state/mod.rs                                            *)
(***************************************************************************)

\* The largest dt of a tick, in eighths of a second.
MaxDt == 2

\* Motion::new(4.0): tiles per second, of the player, the hazard and the blocks.
Speed == 4

\* PlayerTracker::new(0.05, ...): the proximity threshold, in hundredths of a tile.
ThresholdPct == 5

HalfTile(x, y) == <<2 * x, 2 * y>>

\* The walls around the tiles 1..w by 1..h, each with its sprite style.
Border(w, h) ==
    {<<0, HalfTile(x, y)>> : x \in {0, w + 1}, y \in 0..(h + 1)}
        \cup {<<0, HalfTile(x, y)>> : x \in 0..(w + 1), y \in {0, h + 1}}

\* The levels of the game, as GameState::new reads them (level.player_pos,
\* stalker_pos, initial_stalker_path, doors, blocks, push_blocks, buttons, gates).
\*
\*      W W W W W W W        W W W W W W W
\*      W P B . D S W        W D G . . S W
\*      W . . . . . W        W W P B O . W
\*      W W W W W W W        W W W W W W W
\*
\* In the first the block B stands between the Player and the goal D, and the
\* hazard S patrols between its start and the goal's tile.  In the second the
\* goal lies behind the gate G, which the button O opens, and the hazard patrols
\* its row from end to end, over the goal.
LevelOpen ==
    [player_pos |-> HalfTile(1, 2),
     stalker_pos |-> HalfTile(5, 2),
     initial_stalker_path |-> <<HalfTile(4, 2), HalfTile(5, 2)>>,
     doors |-> <<HalfTile(4, 2)>>,
     blocks |-> Border(5, 2),
     push_blocks |-> <<HalfTile(2, 2)>>,
     buttons |-> <<>>,
     gates |-> <<>>]

LevelGate ==
    [player_pos |-> HalfTile(2, 1),
     stalker_pos |-> HalfTile(5, 2),
     initial_stalker_path |-> <<HalfTile(1, 2), HalfTile(5, 2)>>,
     doors |-> <<HalfTile(1, 2)>>,
     blocks |-> Border(5, 2) \cup {<<1, HalfTile(1, 1)>>},
     push_blocks |-> <<HalfTile(3, 1)>>,
     buttons |-> <<HalfTile(4, 1)>>,
     gates |-> <<HalfTile(2, 2)>>]

\* game.levels
Levels == <<LevelOpen, LevelGate>>

\* game.input.dir(): one of four directions, or none.
Dirs == {<<0, 0>>, <<1, 0>>, <<-1, 0>>, <<0, 1>>, <<0, -1>>}

\* A slip: the goal object spawned solid.
GoalCollisionObstacle == "Obstacle"

\* .with(Collision::BlocksPush).with(Goal)
GoalCollision == "BlocksPush"

\* .with(Collision::BlocksPush).with(Hazard)
HazardCollision == "BlocksPush"

\* GameState::new: the world spawned from game.levels[game.current_level].
\* A destination is None or <<[target, dir]>>.
NewPlayer(level) == [pos |-> level.player_pos, dest |-> None]

NewHazard(level) == [pos |-> level.stalker_pos, dest |-> None, waypoint |-> 0]

NewPushables(level) ==
    [i \in 1..Len(level.push_blocks) |-> [pos |-> level.push_blocks[i], dest |-> None]]

NewButtons(level) == [i \in 1..Len(level.buttons) |-> FALSE]

NewGates(level) ==
    [i \in 1..Len(level.gates) |-> [open |-> FALSE, collision |-> "Obstacle", sprite_open |-> FALSE]]

Level == Levels[lvl + 1]

Add(p, q) == <<p[1] + q[1], p[2] + q[2]>>

Scale(k, d) == <<k * d[1], k * d[2]>>

Abs(n) == IF n < 0 THEN -n ELSE n

Sgn(n) == IF n < 0 THEN -1 ELSE IF n > 0 THEN 1 ELSE 0

\* The distance between two positions on one row or column, in half tiles.
Dist(p, q) == Abs(p[1] - q[1]) + Abs(p[2] - q[2])

\* The squared distance, in half tiles squared.
Dist2(p, q) == (p[1] - q[1]) * (p[1] - q[1]) + (p[2] - q[2]) * (p[2] - q[2])

\* speed * dt, in half tiles: Speed tiles a second, dt eighths of a second.
StepLen(dt) == (Speed * dt * 2) \div 8

\* The Collision components of the entities whose Position is exactly p.
CollisionsAt(p) ==
    {"Obstacle" : b \in {b \in Level.blocks : b[2] = p}}
        \cup {gates[i].collision : i \in {i \in DOMAIN gates : Level.gates[i] = p}}
        \cup {GoalCollision : i \in {i \in DOMAIN Level.doors : Level.doors[i] = p}}
        \cup {HazardCollision : h \in {h \in {hazard} : h.pos = p}}
        \cup {"Pushable" : i \in {i \in DOMAIN pushables : pushables[i].pos = p}}

\* A reordering the tick could have: the button and gate systems after the
\* interpolation.
UpdateOrderButtonsLast ==
    <<"track_player", "player_controls", "push_stuff", "move_towards_destinations",
      "check_button_presses", "open_and_close_gates", "update_gate_sprites", "evaluate">>

\* The systems of GameState::update in the order of its run_custom calls, then the
\* block that evaluates victory and gameover.
UpdateOrder ==
    <<"check_button_presses", "open_and_close_gates",
      "track_player", "player_controls", "push_stuff", "move_towards_destinations",
      "update_gate_sprites", "evaluate">>

NoInput == [dir |-> <<0, 0>>, dt |-> 0]

NoVerdict == [victory |-> FALSE, gameover |-> FALSE]

\* An idle Pushable, or the idle Player, rests exactly on p.
Occupied(p) ==
    \/ player.pos = p /\ player.dest = None
    \/ \E i \in DOMAIN pushables : pushables[i].pos = p /\ pushables[i].dest = None

\* The Button a gate is tied to: the one declared at the same place in the level.
Pressed(i) == i \in DOMAIN buttons /\ buttons[i]

\* distance <= threshold, with the distance in tiles.
Near(p, q) == Dist2(p, q) * 10000 <= 4 * ThresholdPct * ThresholdPct

\* Destination { target, unit direction }.
Destination(from, to) ==
    <<[target |-> to, dir |-> <<Sgn(to[1] - from[1]), Sgn(to[2] - from[2])>>]>>

\* The tracker's decision for an idle hazard: chase the Player's tile when near,
\* else head for the current waypoint, advancing it on arrival.
Tracked(h) ==
    IF h.dest # None THEN h
    ELSE IF Near(h.pos, player.pos)
    THEN [h EXCEPT !.dest = Destination(h.pos, player.pos)]
    ELSE LET path == Level.initial_stalker_path
             wp == IF h.pos = path[h.waypoint + 1]
                   THEN (h.waypoint + 1) % Len(path)
                   ELSE h.waypoint
         IN  [h EXCEPT !.waypoint = wp, !.dest = Destination(h.pos, path[wp + 1])]

\* What refuses the Player's own move into a tile.
BlocksEntry(cs) == "Obstacle" \in cs

\* What ends a push chain by refusing it.
BlocksPushInto(cs) == "Obstacle" \in cs \/ "BlocksPush" \in cs

\* The Player's move for a sampled direction: only when idle and the direction
\* is not zero; refused when the target tile blocks entry.
Controlled(pl, dir) ==
    IF pl.dest # None \/ dir = <<0, 0>> THEN pl
    ELSE LET target == Add(pl.pos, Scale(2, dir))
         IN  IF BlocksEntry(CollisionsAt(target)) THEN pl
             ELSE [pl EXCEPT !.dest = <<[target |-> target, dir |-> dir]>>]

\* The Pushables in line from p along d, up to the first tile without one.
RECURSIVE Chain(_, _)
Chain(p, d) ==
    IF "Pushable" \in CollisionsAt(p)
    THEN {i \in DOMAIN pushables : pushables[i].pos = p} \cup Chain(Add(p, Scale(2, d)), d)
    ELSE {}

\* The tile behind the chain.
RECURSIVE Landing(_, _)
Landing(p, d) ==
    IF "Pushable" \in CollisionsAt(p) THEN Landing(Add(p, Scale(2, d)), d) ELSE p

\* The Player has a move that has not advanced yet: it was given this tick.
JustStarted(pl) == pl.dest # None /\ Dist(pl.pos, pl.dest[1].target) = 2

\* The Player's move pushes the chain in front of it.
Pushing == JustStarted(player) /\ "Pushable" \in CollisionsAt(player.dest[1].target)

PushRefused ==
    Pushing /\ BlocksPushInto(CollisionsAt(Landing(player.dest[1].target, player.dest[1].dir)))

\* One entity's interpolation over a tick of length dt.
Moved(e, dt) ==
    IF e.dest = None THEN e
    ELSE LET d == e.dest[1]
         IN  IF Dist(e.pos, d.target) <= StepLen(dt)
             THEN [e EXCEPT !.pos = d.target, !.dest = None]
             ELSE [e EXCEPT !.pos = Add(e.pos, Scale(StepLen(dt), d.dir))]

\* victory::determine_victory_from_goal
Victory == \E i \in DOMAIN Level.doors : player.pos = Level.doors[i]

\* victory::determine_gameover_from_hazard
Gameover == player.pos = hazard.pos

\* A slip: no wrap after the last level.
AdvanceLevelNoWrap(g) == [g EXCEPT !.current_level = g.current_level + 1]

\* game.current_level += 1; past the last level the game is complete.
AdvanceLevel(g) ==
    IF g.current_level + 1 >= Len(Levels)
    THEN [current_level |-> 0, complete |-> TRUE, current_state |-> "EndingState"]
    ELSE [g EXCEPT !.current_level = g.current_level + 1]

\* A slip: a loss on the same tick cancels the advance.
ProgressUnlessGameover(g, victory, gameover) ==
    IF victory /\ ~gameover THEN AdvanceLevel(g) ELSE g

\* if victory { ... }
Progress(g, victory, gameover) == IF victory THEN AdvanceLevel(g) ELSE g

\* A slip: only victory leaves the level.
ExitingStateVictoryOnly(victory, gameover) == victory

\* exiting_state = victory | gameover
ExitingState(victory, gameover) == victory \/ gameover

GameInit ==
    /\ game \in [current_level : 0..(Len(Levels) - 1), complete : {FALSE},
                 current_state : {"GameState"}]
    /\ lvl = game.current_level
    /\ player = NewPlayer(Levels[lvl + 1])
    /\ hazard = NewHazard(Levels[lvl + 1])
    /\ pushables = NewPushables(Levels[lvl + 1])
    /\ buttons = NewButtons(Levels[lvl + 1])
    /\ gates = NewGates(Levels[lvl + 1])
    /\ pc = 0
    /\ input = NoInput
    /\ ran = <<>>
    /\ ret = TRUE
    /\ verdict = NoVerdict
    /\ occ0 = [i \in DOMAIN Levels[lvl + 1].buttons |-> FALSE]

\* update is called with the elapsed time and the sampled direction.
BeginUpdate ==
    /\ pc = 0
    /\ ret
    /\ game.current_state = "GameState"
    /\ \E dir \in Dirs, dt \in 1..MaxDt : input' = [dir |-> dir, dt |-> dt]
    /\ pc' = 1
    /\ ran' = <<>>
    /\ occ0' = [i \in DOMAIN buttons |-> Occupied(Level.buttons[i])]
    /\ UNCHANGED <<game, lvl, player, hazard, pushables, buttons, gates, ret, verdict>>
    /\ UNCHANGED ldvars

\* The system `name` is the next to run; after it, the one that follows.
Runs(name) ==
    /\ pc \in DOMAIN UpdateOrder
    /\ UpdateOrder[pc] = name
    /\ ran' = Append(ran, name)
    /\ pc' = IF pc = Len(UpdateOrder) THEN 0 ELSE pc + 1

check_button_presses ==
    /\ Runs("check_button_presses")
    /\ buttons' = [i \in DOMAIN buttons |-> Occupied(Level.buttons[i])]
    /\ UNCHANGED <<game, lvl, player, hazard, pushables, gates, input, ret, verdict, occ0>>
    /\ UNCHANGED ldvars

open_and_close_gates ==
    /\ Runs("open_and_close_gates")
    /\ gates' = [i \in DOMAIN gates |->
                    [gates[i] EXCEPT !.open = Pressed(i),
                                     !.collision = IF Pressed(i) THEN "None" ELSE "Obstacle"]]
    /\ UNCHANGED <<game, lvl, player, hazard, pushables, buttons, input, ret, verdict, occ0>>
    /\ UNCHANGED ldvars

track_player ==
    /\ Runs("track_player")
    /\ hazard' = Tracked(hazard)
    /\ UNCHANGED <<game, lvl, player, pushables, buttons, gates, input, ret, verdict, occ0>>
    /\ UNCHANGED ldvars

player_controls ==
    /\ Runs("player_controls")
    /\ player' = Controlled(player, input.dir)
    /\ UNCHANGED <<game, lvl, hazard, pushables, buttons, gates, input, ret, verdict, occ0>>
    /\ UNCHANGED ldvars

push_stuff ==
    /\ Runs("push_stuff")
    /\ IF ~Pushing THEN UNCHANGED <<player, pushables>>
       ELSE IF PushRefused
       THEN /\ player' = [player EXCEPT !.dest = None]
            /\ UNCHANGED pushables
       ELSE LET d == player.dest[1].dir
                chain == Chain(player.dest[1].target, d)
            IN  /\ pushables' =
                       [i \in DOMAIN pushables |->
                           IF i \in chain
                           THEN [pushables[i] EXCEPT
                                    !.dest = <<[target |-> Add(pushables[i].pos, Scale(2, d)),
                                                dir |-> d]>>]
                           ELSE pushables[i]]
                /\ UNCHANGED player
    /\ UNCHANGED <<game, lvl, hazard, buttons, gates, input, ret, verdict, occ0>>
    /\ UNCHANGED ldvars

move_towards_destinations ==
    /\ Runs("move_towards_destinations")
    /\ player' = Moved(player, input.dt)
    /\ hazard' = Moved(hazard, input.dt)
    /\ pushables' = [i \in DOMAIN pushables |-> Moved(pushables[i], input.dt)]
    /\ UNCHANGED <<game, lvl, buttons, gates, input, ret, verdict, occ0>>
    /\ UNCHANGED ldvars

update_gate_sprites ==
    /\ Runs("update_gate_sprites")
    /\ gates' = [i \in DOMAIN gates |-> [gates[i] EXCEPT !.sprite_open = gates[i].open]]
    /\ UNCHANGED <<game, lvl, player, hazard, pushables, buttons, input, ret, verdict, occ0>>
    /\ UNCHANGED ldvars

\* The block that reads victory and gameover, advances the game and returns.
evaluate ==
    /\ Runs("evaluate")
    /\ verdict' = [victory |-> Victory, gameover |-> Gameover]
    /\ game' = Progress(game, verdict'.victory, verdict'.gameover)
    /\ ret' = ~ExitingState(verdict'.victory, verdict'.gameover)
    /\ input' = NoInput
    /\ UNCHANGED <<lvl, player, hazard, pushables, buttons, gates, occ0>>
    /\ UNCHANGED ldvars

\* update returned false and the game goes on: the world is discarded and a fresh
\* one spawned by GameState::new from game.levels[game.current_level].
EnterLevel ==
    /\ pc = 0
    /\ ~ret
    /\ game.current_state = "GameState"
    /\ lvl' = game.current_level
    /\ player' = NewPlayer(Levels[lvl' + 1])
    /\ hazard' = NewHazard(Levels[lvl' + 1])
    /\ pushables' = NewPushables(Levels[lvl' + 1])
    /\ buttons' = NewButtons(Levels[lvl' + 1])
    /\ gates' = NewGates(Levels[lvl' + 1])
    /\ ran' = <<>>
    /\ ret' = TRUE
    /\ verdict' = NoVerdict
    /\ occ0' = [i \in DOMAIN Levels[lvl' + 1].buttons |-> FALSE]
    /\ UNCHANGED <<game, pc, input>>
    /\ UNCHANGED ldvars

Next ==
    \/ BeginUpdate
    \/ check_button_presses
    \/ open_and_close_gates
    \/ track_player
    \/ player_controls
    \/ push_stuff
    \/ move_towards_destinations
    \/ update_gate_sprites
    \/ evaluate
    \/ EnterLevel

Init == LoadInit /\ GameInit

Spec == Init /\ [][Next]_vars

NextLoad == ReadLevel \/ ParseLevel \/ PushLevel \/ ReturnLevels

SpecLoad == Init /\ [][NextLoad]_vars

(***************************************************************************)
(* The tick's order, its gates and its verdict                             *)
(***************************************************************************)

TickDone == pc = 0 /\ ran # <<>>

\* Whenever system b has run this tick, system a ran before it.
RanBefore(a, b) ==
    \A j \in DOMAIN ran : ran[j] = b => \E i \in 1..(j - 1) : ran[i] = a

TickOrderInCode ==
    <<"check_button_presses", "open_and_close_gates",
      "track_player", "player_controls", "push_stuff", "move_towards_destinations",
      "update_gate_sprites", "evaluate">>

\* C1 as stated: within a tick the systems run AI, input, push, interpolation,
\* button/gate update, win/loss evaluation; so the button check of a tick comes
\* after that tick's interpolation.
C1_SpecOrder ==
    /\ RanBefore("track_player", "player_controls")
    /\ RanBefore("player_controls", "push_stuff")
    /\ RanBefore("push_stuff", "move_towards_destinations")
    /\ RanBefore("move_towards_destinations", "check_button_presses")
    /\ RanBefore("check_button_presses", "open_and_close_gates")
    /\ RanBefore("open_and_close_gates", "evaluate")

\* C1, amended: within a tick the systems run button check, gate update, AI,
\* input, push, interpolation, gate sprites, win/loss evaluation: at every point
\* of a tick the systems run so far are a prefix of that order, and a finished
\* tick has run them all.
C1_CodeOrder ==
    /\ Len(ran) <= Len(TickOrderInCode)
    /\ ran = SubSeq(TickOrderInCode, 1, Len(ran))
    /\ (pc # 0 => Len(ran) = pc - 1)
    /\ (TickDone => ran = TickOrderInCode)

\* A tick has run to its end.
C1_Witness == TickDone /\ ran[Len(ran)] = "evaluate" /\ ran[1] = "check_button_presses"

IdlePushableOn(p) ==
    \E i \in DOMAIN pushables : pushables[i].pos = p /\ pushables[i].dest = None

IdlePusherOn(p) ==
    IdlePushableOn(p) \/ (player.pos = p /\ player.dest = None)

\* C6 as stated: no tick ends with an idle Pushable on the button and the gate
\* still Obstacle, or with the button vacated and the gate still None.
C6_GateFollowsSameTick ==
    TickDone =>
        \A i \in DOMAIN gates :
            /\ IdlePushableOn(Levels[lvl + 1].buttons[i]) => gates[i].collision = "None"
            /\ ~IdlePusherOn(Levels[lvl + 1].buttons[i]) => gates[i].collision = "Obstacle"

\* C6, amended: a gate is Obstacle at spawn, and at the end of a tick its
\* Collision is None exactly when an idle Pushable (or the idle Player) rested
\* on its button's tile as that tick began: the gate opens one tick after the
\* Pushable comes to rest and closes one tick after it leaves.
C6_GateLagsOneTick ==
    pc = 0 =>
        \A i \in DOMAIN gates :
            gates[i].collision = IF ran # <<>> /\ occ0[i] THEN "None" ELSE "Obstacle"

\* A tick ends with the Pushable at rest on the button and the gate open.
C6_Witness ==
    /\ TickDone
    /\ \E i \in DOMAIN gates :
           gates[i].collision = "None" /\ IdlePushableOn(Levels[lvl + 1].buttons[i])

PlayerOnGoal ==
    \E i \in DOMAIN Levels[lvl + 1].doors : player.pos = Levels[lvl + 1].doors[i]

PlayerOnHazard == player.pos = hazard.pos

\* C7: update returns false exactly on the ticks at whose end, after the AI,
\* input, push and interpolation steps, the Player's position equals a Goal's or
\* the Hazard's; within a tick nothing is signalled before the evaluation, and
\* the evaluation comes after the interpolation.
C7_ExitIffVictoryOrGameover ==
    /\ TickDone => /\ verdict.victory = PlayerOnGoal
                   /\ verdict.gameover = PlayerOnHazard
                   /\ ret = ~(verdict.victory \/ verdict.gameover)
    /\ pc # 0 => ret
    /\ RanBefore("move_towards_destinations", "evaluate")

\* A tick ends on the hazard and not on a goal, and update returned false.
C7_Witness == TickDone /\ ~ret /\ verdict.gameover /\ ~verdict.victory

C9_LevelProgression ==
    /\ [](game.current_level \in 0..(Len(Levels) - 1))
    /\ [][ran' = Append(ran, "evaluate") /\ verdict'.victory =>
             IF game.current_level < Len(Levels) - 1
             THEN game' = [game EXCEPT !.current_level = game.current_level + 1]
             ELSE game' = [current_level |-> 0, complete |-> TRUE,
                           current_state |-> "EndingState"]]_vars
    /\ [][game'.complete # game.complete =>
             /\ ran' = Append(ran, "evaluate")
             /\ verdict'.victory
             /\ game.current_level = Len(Levels) - 1]_vars

\* The last level was won: the game is complete and back at level 0.
C9_Witness ==
    /\ game.complete
    /\ game.current_level = 0
    /\ game.current_state = "EndingState"
    /\ lvl = Len(Levels) - 1

\* C10: a step changes current_level, complete or current_state if and only if
\* it is the evaluation of a tick on which victory holds, whether or not
\* gameover holds too.
C10_ProgressIffVictory ==
    [][(game' # game) <=> (ran' = Append(ran, "evaluate") /\ verdict'.victory)]_vars

\* A tick ends with victory and gameover both, and the game has advanced.
C10_Witness ==
    /\ TickDone
    /\ verdict.victory
    /\ verdict.gameover
    /\ game.current_level = lvl + 1

(***************************************************************************)
(* The loader's results                                                    *)
(***************************************************************************)

\* The (row, column) places of a grid, both from 1, that hold token t.
Places(grid, t) ==
    {rc \in UNION {{<<r, c>> : c \in 1..Len(grid[r])} : r \in 1..Len(grid)} :
        grid[rc[1]][rc[2]] = t}

AllTokens(grid) == UNION {{grid[r][c] : c \in 1..Len(grid[r])} : r \in 1..Len(grid)}

LongestRow(grid) ==
    IF grid = <<>> THEN 0
    ELSE CHOOSE n \in {Len(grid[r]) : r \in 1..Len(grid)} :
             \A r \in 1..Len(grid) : Len(grid[r]) <= n

SeqRange(q) == {q[i] : i \in DOMAIN q}

\* The tile of the token at row r (1 = top) and column c (1 = leftmost): column
\* index c - 1, and rows counted upward from the last.
TileOf(grid, rc) == <<rc[2] - 1, Len(grid) - rc[1]>>

\* C2 as stated: width is the number of tokens of the longest row, height the
\* number of rows, and the midpoint (width/2, height/2 - 0.5).
C2_WidthIsLongestRow ==
    ld = "built" =>
        /\ built[1].width = LongestRow(tiles)
        /\ built[1].height = Len(tiles)
        /\ built[1].level.mid2 = <<LongestRow(tiles), Len(tiles) - 1>>

\* C2, amended: width is one less than the number of tokens of the longest row
\* (the largest column index), height is the number of rows, and the midpoint
\* is (width/2, height/2 - 0.5) for that width.
C2_WidthIsLargestIndex ==
    ld = "built" =>
        /\ built[1].width = LongestRow(tiles) - 1
        /\ built[1].height = Len(tiles)
        /\ built[1].level.mid2 = <<LongestRow(tiles) - 1, Len(tiles) - 1>>

\* A level was built from a ragged grid.
C2_Witness ==
    /\ ld = "built"
    /\ \E r1, r2 \in 1..Len(tiles) : Len(tiles[r1]) < Len(tiles[r2])

\* A grid the loader must refuse: a token the match has no arm for, no player
\* start, no hazard start, or no goal.
Defective(grid) ==
    \/ \E t \in AllTokens(grid) : t \notin {"P", "S", "D", "=", "."}
    \/ Places(grid, "P") = {}
    \/ Places(grid, "S") = {}
    \/ Places(grid, "D") = {}

\* C3: load_levels panics on a level exactly when its grid is defective, and
\* then neither that level nor the list built so far exists; a grid without
\* defect yields its Level.
C3_FatalIffDefective ==
    /\ ld = "panicked" => Defective(tiles) /\ built[1].panic # "" /\ nlevels = 0
    /\ ld = "built" => ~Defective(tiles) /\ built[1].panic = ""
    /\ ld \in {"loop", "returned"} => built = None

\* The second level has recognized tokens and both starts but no goal: the
\* load is aborted and the first level is lost with it.
C3_Witness ==
    /\ ld = "panicked"
    /\ built[1].name = "second"
    /\ AllTokens(tiles) \subseteq {"P", "S", "D", "=", "."}
    /\ Places(tiles, "P") # {}
    /\ Places(tiles, "S") # {}
    /\ Places(tiles, "D") = {}

WellFormed(grid) ==
    /\ AllTokens(grid) \subseteq {"P", "S", "D", "=", "."}
    /\ Cardinality(Places(grid, "P")) = 1
    /\ Cardinality(Places(grid, "S")) = 1
    /\ Places(grid, "D") # {}

\* C4: for a well-formed grid the token at row r, column c (both from 0) is
\* the tile (c, height - 1 - r); doors holds one position for each goal token,
\* blocks one for each wall token, and the starts are their tokens' tiles.
C4_TileMapping ==
    ld = "built" /\ WellFormed(tiles) =>
        LET lv == built[1].level
        IN  /\ {lv.player_pos} = {TileOf(tiles, rc) : rc \in Places(tiles, "P")}
            /\ {lv.stalker_pos} = {TileOf(tiles, rc) : rc \in Places(tiles, "S")}
            /\ SeqRange(lv.doors) = {TileOf(tiles, rc) : rc \in Places(tiles, "D")}
            /\ Len(lv.doors) = Cardinality(Places(tiles, "D"))
            /\ SeqRange(lv.blocks) = {TileOf(tiles, rc) : rc \in Places(tiles, "=")}
            /\ Len(lv.blocks) = Cardinality(Places(tiles, "="))

\* A level was built from a well-formed grid of two rows with a wall in it.
C4_Witness ==
    /\ ld = "built"
    /\ WellFormed(tiles)
    /\ Len(tiles) = 2
    /\ Places(tiles, "=") # {}

\* C5 as stated: a grid of the eight token kinds that holds a pushable-block,
\* button or gate token, with one player start, one hazard start and at least
\* one goal, loads without error.
C5_ExtraTokensLoad ==
    /\ ld \in {"built", "panicked"}
    /\ AllTokens(tiles) \subseteq {"P", "S", "D", "=", ".", "B", "O", "G"}
    /\ AllTokens(tiles) \cap {"B", "O", "G"} # {}
    /\ Cardinality(Places(tiles, "P")) = 1
    /\ Cardinality(Places(tiles, "S")) = 1
    /\ Places(tiles, "D") # {}
    => ld = "built"
====
